---- MODULE Spec2Model ----
(***************************************************************************)
(* A model of the ShiViz log parser (src/js/parser.js): LogParser splits   *)
(* the raw log text into executions and ExecutionParser parses the events  *)
(* of one execution.                                                       *)
(*                                                                         *)
(* A text is a sequence of tokens.  A token is either a character (a       *)
(* newline, a junk non-blank character) or a whole substring that one of   *)
(* the two patterns matches: a delimiter occurrence or an event line.      *)
(* JavaScript values that are not strings are tagged strings: Undefined,   *)
(* and the tagged records built by Val.                                    *)
(***************************************************************************)
EXTENDS Integers, Sequences, FiniteSets, TLC

\* Longest raw text, in tokens, parsed with a well-formed event pattern.
MaxLen == 4
\* Longest raw text parsed with an event pattern that lacks a required group.
MaxLenLacking == 2
\* Longest raw text of each construction when several share their patterns.
MaxLenReuse == 2
\* Visual nodes of the model a HighlightMotifTransformation transforms.
NumVisualNodes == 3
\* Most calls of HighlightMotifTransformation.transform.
MaxTransforms == 2
\* Views that exist.
NumViews == 2
\* Most calls of Controller.transform, those made by addView included.
MaxCalls == 3
\* Hosts a GraphBuilder creates in its lifetime.
MaxHostIds == 7
\* Hosts, rows, nodes and edges of a pattern handed to toVectorClocks.
MaxPatternHosts == 3
MaxRows == 4
MaxPatternNodes == 4
MaxPatternEdges == 2
\* Drawing with the mouse: the hosts, the lowest row the pointer reaches,
\* the nodes drawn, and the circle mousedowns whose handlers are bound at
\* one time.
DrawHosts == 2
MaxMouseRow == 2
MaxDrawNodes == 3
MaxDrags == 2
\* Strings handed to Abbreviation.generateFromStrings, their length, and
\* the widest string a fitter accepts.
MaxStrings == 2
MaxStrLen == 4
MaxWidth == 3

-----------------------------------------------------------------------------
(* The alphabet of the texts. *)

Newline == "nl"
Whitespace == {Newline}
\* The delimiters: none, one without the trace group, one with it.
Delimiters == {"null", "notrace", "trace"}
DelimiterNames(d) == IF d = "trace" THEN {"trace"} ELSE {}
\* The occurrences of a delimiter: those of the delimiter with the trace
\* group differ in the trace they capture ("a", "b" and the empty string).
DelimTokens(d) ==
    CASE d = "trace" -> {"da", "db", "de"}
      [] d = "notrace" -> {"d"}
      [] OTHER -> {}
\* Event lines: e1 (of host A) and e2 (of host B) carry a well-formed
\* clock, bj a clock that is no JSON.
EventTokens == {"e1", "e2", "bj"}
\* "x" is non-blank text that no pattern matches.
Chars(d) == Whitespace \cup DelimTokens(d) \cup EventTokens \cup {"x"}

Texts(d, n) == UNION {[1..k -> Chars(d)] : k \in 0..n}

\* The JavaScript value undefined (no modelled string equals it).
Undefined == "#undefined"

\* What the groups of the two patterns capture in a token.
TraceOf(tok) == CASE tok = "da" -> "a" [] tok = "db" -> "b" [] OTHER -> ""
ClockOf(tok) == CASE tok = "e1" -> "{A:1}" [] tok = "e2" -> "{A:1,B:1}" [] OTHER -> "{A:"
HostOf(tok) == IF tok = "e2" THEN "B" ELSE "A"
EventOf(tok) == tok

RequiredNames == {"clock", "host", "event"}
\* The event patterns: the well-formed one, and one lacking each group.
EventPatterns == {RequiredNames} \cup {RequiredNames \ {n} : n \in RequiredNames}

-----------------------------------------------------------------------------
(* JavaScript built-ins used by the parser. *)

Min(S) == CHOOSE x \in S : \A y \in S : x <= y
Max(S) == CHOOSE x \in S : \A y \in S : x >= y

\* String.prototype.trim
Trim(s) ==
    LET keep == {k \in 1..Len(s) : s[k] \notin Whitespace}
    IN  IF keep = {} THEN <<>> ELSE SubSeq(s, Min(keep), Max(keep))

\* String.prototype.split on a global pattern without capturing groups.
RECURSIVE Split(_, _)
Split(s, sep) ==
    LET at == {k \in 1..Len(s) : s[k] \in sep}
    IN  IF at = {} THEN <<s>>
        ELSE <<SubSeq(s, 1, Min(at) - 1)>> \o Split(SubSeq(s, Min(at) + 1, Len(s)), sep)

\* exec of a global pattern: the first match at or after lastIndex (0-based),
\* lastIndex moved past it; no match resets lastIndex to 0.
Exec(s, lastIndex, matching) ==
    LET at == {k \in (lastIndex + 1)..Len(s) : s[k] \in matching}
    IN  IF at = {} THEN [found |-> FALSE, index |-> 0, tok |-> "", lastIndex |-> 0]
        ELSE [found |-> TRUE, index |-> Min(at) - 1, tok |-> s[Min(at)],
              lastIndex |-> Min(at)]

\* arr[i] of a JavaScript array (0-based): undefined past the end.
At(arr, i) == IF i < Len(arr) THEN arr[i + 1] ELSE Undefined

\* The property key a value is converted to.
ToKey(v) == IF v = Undefined THEN "undefined" ELSE v

\* JSON.parse: TRUE when the text is JSON (undefined is converted to the
\* text "undefined", which is not).
JSONParses(clockString) == clockString \in {"{A:1}", "{A:1,B:1}"}

\* new VectorTimestamp(clock, host) throws when host is no key of the clock.
VectorTimestampThrows(clockString, hostString) ==
    ~ \/ clockString = "{A:1}" /\ hostString = "A"
      \/ clockString = "{A:1,B:1}" /\ hostString \in {"A", "B"}

-----------------------------------------------------------------------------
(* The state: the arguments of new LogParser(rawText, delimiter, regexp),  *)
(* the fields of the LogParser under construction, the ExecutionParser     *)
(* under construction, and the position of the event pattern.              *)

VARIABLES
    rawText,      \* argument: the raw log text
    delimiter,    \* argument: the delimiter pattern, or "null"
    regexpNames,  \* argument: the named groups of the event pattern
    lastIndex,    \* the event pattern's position (it is a global pattern)
    rawString,    \* this.rawString
    labels,       \* this.labels
    executions,   \* this.executions: own properties, key -> ExecutionParser
    currExecs,    \* the split segments
    currLabels,   \* the labels, by segment index
    i,            \* the segment loop's index (0-based)
    ep,           \* the ExecutionParser under construction
    pc,           \* "new", "segments", "exec", "done" or "failed"
    error,        \* the error the constructor threw
    ret,          \* what the last call of getLabels / getLogEvents returned
    hmt,          \* a HighlightMotifTransformation and the visual model it transforms
    ctl,          \* a Controller, its views and its transformers
    gb,           \* a GraphBuilder: hosts, nodes, edges, hover and mouse
    ab            \* an Abbreviation being truncated, and its fitter

parserVars == <<rawText, delimiter, regexpNames, lastIndex, rawString, labels,
                executions, currExecs, currLabels, i, ep, pc, error, ret>>
\* The state of the other components, which the parser does not touch.
otherVars == <<hmt, ctl, gb, ab>>
vars == <<parserVars, otherVars>>

\* A component that a specification does not exercise.
Idle == [pc |-> "idle"]

\* Tagged JavaScript values returned to the caller.
Val(kind, val) == [call |-> "", kind |-> kind, val |-> val]
NoValue == Val("none", <<>>)
Null == Val("null", <<>>)
UndefinedValue == Val("undefined", <<>>)

NoError == [type |-> "none", userFriendly |-> FALSE, line |-> 0, text |-> ""]
\* Reading an identifier that no enclosing scope declares.
ReferenceError(name) ==
    [type |-> "ReferenceError", userFriendly |-> FALSE, line |-> 0, text |-> name]

\* {} : an object with no own property.
EmptyObject == [k \in {} |-> <<>>]
\* obj[key] = val
Put(obj, key, val) == [k \in DOMAIN obj \cup {key} |-> IF k = key THEN val ELSE obj[k]]
\* The properties every object inherits from Object.prototype (those looked up).
ObjectPrototypeKeys == {"constructor"}
\* obj[key]: an own property, else an inherited one, else undefined.
Get(obj, key) ==
    IF key \in DOMAIN obj THEN Val("own", obj[key])
    ELSE IF key \in ObjectPrototypeKeys THEN Val("inherited", <<>>)
    ELSE UndefinedValue

NewExecutionParser(str, label) ==
    [rawString |-> str, label |-> label, timestamps |-> <<>>, logEvents |-> <<>>]
NoExecutionParser == NewExecutionParser(<<>>, "")

\* new LogEvent(event, timestamp, ln, fields); the modelled patterns have no
\* group besides clock, host and event, so fields is empty and left out.
LogEvent(event, timestamp, ln) == [text |-> event, timestamp |-> timestamp, lineNum |-> ln]

\* match[name]: the capture of a group of the event pattern, undefined when
\* the pattern has no such group.
Group(names, name, tok) ==
    IF name \notin names THEN Undefined
    ELSE CASE name = "clock" -> ClockOf(tok)
           [] name = "host" -> HostOf(tok)
           [] OTHER -> EventOf(tok)

Init ==
    /\ delimiter \in Delimiters
    /\ regexpNames \in EventPatterns
    /\ rawText \in Texts(delimiter,
                        IF regexpNames = RequiredNames THEN MaxLen ELSE MaxLenLacking)
    /\ lastIndex = 0
    /\ rawString = <<>>
    /\ labels = <<>>
    /\ executions = EmptyObject
    /\ currExecs = <<>>
    /\ currLabels = <<>>
    /\ i = 0
    /\ ep = NoExecutionParser
    /\ pc = "new"
    /\ error = NoError
    /\ ret = NoValue
    /\ hmt = Idle /\ ctl = Idle /\ gb = Idle /\ ab = Idle

\* No LogParser is constructed: the state a specification of another
\* component keeps the parser in.
ParserIdle ==
    /\ delimiter = "null"
    /\ regexpNames = RequiredNames
    /\ rawText = <<>>
    /\ lastIndex = 0
    /\ rawString = <<>>
    /\ labels = <<>>
    /\ executions = EmptyObject
    /\ currExecs = <<>>
    /\ currLabels = <<>>
    /\ i = 0
    /\ ep = NoExecutionParser
    /\ pc = "idle"
    /\ error = NoError
    /\ ret = NoValue

-----------------------------------------------------------------------------
(* LogParser: the constructor. *)

\* The while loop over delimiter.exec: the trace of every match, in order.
RECURSIVE ExecTraces(_, _, _)
ExecTraces(str, d, from) ==
    LET match == Exec(str, from, DelimTokens(d))
    IN  IF match.found THEN <<TraceOf(match.tok)>> \o ExecTraces(str, d, match.lastIndex)
        ELSE <<>>

\* A variant of CurrLabels that puts each trace on the segment before its match.
CurrLabelsTrailing(str, d) ==
    IF "trace" \in DelimiterNames(d) THEN ExecTraces(str, d, 0) \o <<"">> ELSE <<"">>

\* currLabels: "" and, when the delimiter has the trace group, every trace.
CurrLabels(str, d) ==
    IF "trace" \in DelimiterNames(d) THEN <<"">> \o ExecTraces(str, d, 0) ELSE <<"">>

\* A variant of IsBlank that forgets to trim.
IsBlankUntrimmed(seg) == Len(seg) = 0

\* currExecs[i].trim().length > 0, negated
IsBlank(seg) == Len(Trim(seg)) = 0

\* The constructor up to the segment loop (or up to the single
\* ExecutionParser, without a delimiter).
LogParserBegin ==
    /\ pc = "new"
    /\ rawString' = Trim(rawText)
    /\ executions' = EmptyObject
    /\ IF delimiter # "null"
       THEN /\ currExecs' = Split(rawString', DelimTokens(delimiter))
            /\ currLabels' = CurrLabels(rawString', delimiter)
            /\ labels' = <<>>
            /\ i' = 0
            /\ pc' = "segments"
            /\ UNCHANGED ep
       ELSE /\ labels' = <<"">>
            /\ ep' = NewExecutionParser(rawString', "")
            /\ pc' = "exec"
            /\ UNCHANGED <<currExecs, currLabels, i>>
    /\ UNCHANGED otherVars
    /\ UNCHANGED <<rawText, delimiter, regexpNames, lastIndex, error, ret>>

\* One turn of the segment loop: a blank segment is skipped, a non-blank
\* one starts an ExecutionParser; past the last segment the constructor
\* returns.
SegmentLoop ==
    /\ pc = "segments"
    /\ IF i < Len(currExecs)
       THEN IF IsBlank(At(currExecs, i))
            THEN i' = i + 1 /\ UNCHANGED <<pc, ep>>
            ELSE /\ ep' = NewExecutionParser(At(currExecs, i), At(currLabels, i))
                 /\ pc' = "exec"
                 /\ UNCHANGED i
       ELSE pc' = "done" /\ UNCHANGED <<i, ep>>
    /\ UNCHANGED otherVars
    /\ UNCHANGED <<rawText, delimiter, regexpNames, lastIndex, rawString, labels,
                   executions, currExecs, currLabels, error, ret>>

-----------------------------------------------------------------------------
(* ExecutionParser: the constructor. *)

\* A variant of LineNumber that counts lines from 0.
LineNumberFromZero(str, index) == Cardinality({k \in 1..index : str[k] = Newline})

\* ln: 1 + the newlines before the match.
LineNumber(str, index) ==
    LET newlines == {k \in 1..index : str[k] = Newline}
    IN  IF newlines # {} THEN Cardinality(newlines) + 1 ELSE 1

NoTimestamp == [clock |-> "", host |-> ""]

\* parseTimestamp: both catch blocks read `line`, which no scope declares
\* (the line number is the local `ln`), before they build the message.
ParseTimestamp(clockString, hostString) ==
    IF ~JSONParses(clockString)
    THEN [thrown |-> TRUE, error |-> ReferenceError("line"), val |-> NoTimestamp]
    ELSE IF VectorTimestampThrows(clockString, hostString)
    THEN [thrown |-> TRUE, error |-> ReferenceError("line"), val |-> NoTimestamp]
    ELSE [thrown |-> FALSE, error |-> NoError,
          val |-> [clock |-> clockString, host |-> hostString]]

\* A variant of Store that keeps the execution already stored under the label.
StoreFirst(obj, label, parser) ==
    IF ToKey(label) \in DOMAIN obj THEN obj ELSE Put(obj, ToKey(label), parser)

\* A variant of PushEvent that puts the event in front.
UnshiftEvent(events, event) == <<event>> \o events

\* this.executions[label] = the finished ExecutionParser
Store(obj, label, parser) == Put(obj, ToKey(label), parser)

\* this.logEvents.push(event)
PushEvent(events, event) == Append(events, event)

\* One turn of the while loop over regexp.exec: an event is parsed and
\* pushed, or parseTimestamp throws and the construction is aborted, or
\* there is no further match and the ExecutionParser is stored.
ExecutionParserLoop ==
    /\ pc = "exec"
    /\ LET match == Exec(ep.rawString, lastIndex, EventTokens)
           ln == LineNumber(ep.rawString, match.index)
           clock == Group(regexpNames, "clock", match.tok)
           host == Group(regexpNames, "host", match.tok)
           event == Group(regexpNames, "event", match.tok)
           timestamp == ParseTimestamp(clock, host)
       IN  /\ lastIndex' = match.lastIndex
           /\ IF match.found
              THEN IF timestamp.thrown
                   THEN /\ pc' = "failed"
                        /\ error' = timestamp.error
                        /\ UNCHANGED <<ep, executions, labels, i>>
                   ELSE /\ ep' = [ep EXCEPT
                                    !.timestamps = Append(@, timestamp.val),
                                    !.logEvents = PushEvent(@, LogEvent(event, timestamp.val, ln))]
                        /\ UNCHANGED <<pc, error, executions, labels, i>>
              ELSE /\ executions' = Store(executions, ep.label, ep)
                   /\ IF delimiter # "null"
                      THEN /\ labels' = Append(labels, At(currLabels, i))
                           /\ i' = i + 1
                           /\ pc' = "segments"
                      ELSE pc' = "done" /\ UNCHANGED <<labels, i>>
                   /\ UNCHANGED <<ep, error>>
    /\ UNCHANGED otherVars
    /\ UNCHANGED <<rawText, delimiter, regexpNames, rawString, currExecs, currLabels, ret>>

-----------------------------------------------------------------------------
(* The accessors of a constructed LogParser. *)

\* The labels a caller may look up: the modelled traces, the undefined a
\* caller gets from getLabels(), a name every object inherits and a label
\* that no text produces.
LookupLabels == {"", "a", "b", Undefined, "constructor", "zz"}

\* getLabels(): a copy of this.labels
GetLabels ==
    /\ pc = "done"
    /\ ret' = Val("labels", labels)
    /\ UNCHANGED otherVars
    /\ UNCHANGED <<rawText, delimiter, regexpNames, lastIndex, rawString, labels,
                   executions, currExecs, currLabels, i, ep, pc, error>>

\* getLogEvents(label): null when this.executions[label] is falsy, else
\* its logEvents (undefined when the property is not an ExecutionParser).
LogEventsOf(obj, label) ==
    LET execution == Get(obj, ToKey(label))
    IN  IF execution.kind = "undefined" THEN Null
        ELSE IF execution.kind = "own" THEN Val("array", execution.val.logEvents)
        ELSE UndefinedValue

GetLogEvents(label) ==
    /\ pc = "done"
    /\ ret' = [call |-> label, kind |-> LogEventsOf(executions, label).kind,
               val |-> LogEventsOf(executions, label).val]
    /\ UNCHANGED otherVars
    /\ UNCHANGED <<rawText, delimiter, regexpNames, lastIndex, rawString, labels,
                   executions, currExecs, currLabels, i, ep, pc, error>>

Next ==
    \/ LogParserBegin
    \/ SegmentLoop
    \/ ExecutionParserLoop
    \/ GetLabels
    \/ \E label \in LookupLabels : GetLogEvents(label)

Spec == Init /\ [][Next]_vars

-----------------------------------------------------------------------------
(* Several LogParser constructions that are handed the same delimiter and  *)
(* event pattern objects.  The constructor stores the patterns by          *)
(* reference and resets its own fields only; the event pattern keeps the   *)
(* match position (lastIndex) the previous construction left in it.        *)

InitReuse ==
    /\ Init
    /\ Len(rawText) <= MaxLenReuse

\* new LogParser(text, delimiter, regexp) once an earlier construction has
\* returned or thrown: a new object with fresh fields, the same patterns.
NewLogParser ==
    /\ pc \in {"done", "failed"}
    /\ \E text \in Texts(delimiter, MaxLenReuse) : rawText' = text
    /\ rawString' = <<>>
    /\ labels' = <<>>
    /\ executions' = EmptyObject
    /\ currExecs' = <<>>
    /\ currLabels' = <<>>
    /\ i' = 0
    /\ ep' = NoExecutionParser
    /\ pc' = "new"
    /\ error' = NoError
    /\ ret' = NoValue
    /\ UNCHANGED otherVars
    /\ UNCHANGED <<delimiter, regexpNames, lastIndex>>

NextReuse ==
    \/ Next
    \/ NewLogParser

SpecReuse == InitReuse /\ [][NextReuse]_vars

-----------------------------------------------------------------------------
(* HighlightMotifTransformation.  The visual model is the radius of each   *)
(* visual node and the colour of each visual edge; the motif is what the   *)
(* finder returns for the model's graph.                                   *)

VisualNodes == 1..NumVisualNodes
VisualEdges == {e \in VisualNodes \X VisualNodes : e[1] < e[2]}
DefaultRadius == 4
DefaultColor == "default"
HighlightColor == "#333"
\* The values passed as ignoreEdges.
IgnoreEdgesArgs == {"true", "false", Undefined}
\* !!val
ToBoolean(val) == val = "true"

\* setRadius(getRadius() * 1.5) on the visual node of every motif node.
EnlargeNodes(radius, nodes) ==
    [n \in VisualNodes |-> IF n \in nodes THEN (radius[n] * 3) \div 2 ELSE radius[n]]

\* setColor("#333") on the visual edge of every motif edge; this.ignoreEdges
\* is not read.
HighlightEdges(color, edges) ==
    [e \in VisualEdges |-> IF e \in edges THEN HighlightColor ELSE color[e]]

\* new HighlightMotifTransformation(finder, ignoreEdges), and a model to
\* transform.  before* and ignoredEdges record the last call of transform.
InitHmt ==
    /\ \E val \in IgnoreEdgesArgs, nodes \in SUBSET VisualNodes :
       \E edges \in SUBSET {e \in VisualEdges : e[1] \in nodes /\ e[2] \in nodes} :
          hmt = [pc |-> "constructed",
                 ignoreEdges |-> ToBoolean(val),
                 motifNodes |-> nodes,
                 motifEdges |-> edges,
                 radius |-> [n \in VisualNodes |-> DefaultRadius],
                 color |-> [e \in VisualEdges |-> DefaultColor],
                 beforeRadius |-> [n \in VisualNodes |-> DefaultRadius],
                 beforeColor |-> [e \in VisualEdges |-> DefaultColor],
                 ignoredEdges |-> FALSE,
                 transforms |-> 0]
    /\ ctl = Idle /\ gb = Idle /\ ab = Idle
    /\ ParserIdle

SetIgnoreEdges ==
    /\ hmt.pc # "idle"
    /\ \E val \in IgnoreEdgesArgs : hmt' = [hmt EXCEPT !.ignoreEdges = ToBoolean(val)]
    /\ UNCHANGED <<parserVars, ctl, gb, ab>>

Transform ==
    /\ hmt.pc # "idle"
    /\ hmt.transforms < MaxTransforms
    /\ hmt' = [hmt EXCEPT
                 !.pc = "transformed",
                 !.radius = EnlargeNodes(hmt.radius, hmt.motifNodes),
                 !.color = HighlightEdges(hmt.color, hmt.motifEdges),
                 !.beforeRadius = hmt.radius,
                 !.beforeColor = hmt.color,
                 !.ignoredEdges = hmt.ignoreEdges,
                 !.transforms = hmt.transforms + 1]
    /\ UNCHANGED <<parserVars, ctl, gb, ab>>

NextHmt ==
    \/ SetIgnoreEdges
    \/ Transform

SpecHmt == InitHmt /\ [][NextHmt]_vars

-----------------------------------------------------------------------------
(* Controller: addView and transform.  A visual model is an object         *)
(* identity, a number; a Transformer is the model it references.  The      *)
(* views of Global are a fixed list; revert() leaves a view with a visual   *)
(* model that is either a new object or the one it had.  log lists, for    *)
(* the current call of transform, each revert and each tfr.transform() in  *)
(* the order they happen; before and started hold every view's model and   *)
(* every transformer's model at the start of that call.                    *)

Views == 1..NumViews
\* The lists without repetition of some of the views.
RECURSIVE ViewLists(_)
ViewLists(S) ==
    {<<>>} \cup UNION {{<<v>> \o l : l \in ViewLists(S \ {v})} : v \in S}

\* new Transformer(model)
Transformer(model) == [model |-> model]

\* A variant of Retarget that leaves every transformer on its model.
RetargetNone(transformers, ovg, nvg) == transformers

\* if (tfr.getModel() === ovg) tfr.setModel(nvg), for every transformer.
Retarget(transformers, ovg, nvg) ==
    [t \in 1..Len(transformers) |->
        IF transformers[t].model = ovg THEN Transformer(nvg) ELSE transformers[t]]

\* new Controller(global): no transformer yet.
InitCtl ==
    /\ \E views \in ViewLists(Views) :
          ctl = [pc |-> "ready",
                 views |-> views,
                 model |-> [v \in Views |-> v],
                 nextModel |-> NumViews + 1,
                 transformers |-> <<>>,
                 v |-> 0,
                 t |-> 0,
                 log |-> <<>>,
                 before |-> [v \in Views |-> v],
                 started |-> <<>>,
                 calls |-> 0]
    /\ hmt = Idle /\ gb = Idle /\ ab = Idle
    /\ ParserIdle

\* The entry of transform(), with the transformers it starts with.
BeginTransform(transformers) ==
    [ctl EXCEPT !.pc = "revert",
                !.transformers = transformers,
                !.v = 1,
                !.t = 0,
                !.log = <<>>,
                !.before = ctl.model,
                !.started = transformers,
                !.calls = ctl.calls + 1]

\* addView(view): a transformer on the view's visual model is added last,
\* then transform() is called.
AddView(view) ==
    /\ ctl.pc = "ready"
    /\ ctl.calls < MaxCalls
    /\ ctl' = BeginTransform(Append(ctl.transformers, Transformer(ctl.model[view])))
    /\ UNCHANGED <<parserVars, hmt, gb, ab>>

\* transform(), called by a handler.
CallTransform ==
    /\ ctl.pc = "ready"
    /\ ctl.calls < MaxCalls
    /\ ctl' = BeginTransform(ctl.transformers)
    /\ UNCHANGED <<parserVars, hmt, gb, ab>>

\* One turn of the forEach over the views: the view is reverted and the
\* transformers on its old model are moved to its new one.
RevertView ==
    /\ ctl.pc = "revert"
    /\ IF ctl.v <= Len(ctl.views)
       THEN LET view == ctl.views[ctl.v]
                ovg == ctl.model[view]
            IN  \E nvg \in {ovg, ctl.nextModel} :
                   ctl' = [ctl EXCEPT
                             !.model[view] = nvg,
                             !.nextModel = IF nvg = ovg THEN @ ELSE @ + 1,
                             !.transformers = Retarget(ctl.transformers, ovg, nvg),
                             !.log = Append(@, <<"revert", view>>),
                             !.v = @ + 1]
       ELSE ctl' = [ctl EXCEPT !.pc = "apply", !.t = 1]
    /\ UNCHANGED <<parserVars, hmt, gb, ab>>

\* One turn of the forEach over the transformers: tfr.transform().
ApplyTransformer ==
    /\ ctl.pc = "apply"
    /\ IF ctl.t <= Len(ctl.transformers)
       THEN ctl' = [ctl EXCEPT !.log = Append(@, <<"transform", ctl.t>>), !.t = @ + 1]
       ELSE ctl' = [ctl EXCEPT !.pc = "ready"]
    /\ UNCHANGED <<parserVars, hmt, gb, ab>>

NextCtl ==
    \/ \E view \in Views : AddView(view)
    \/ CallTransform
    \/ RevertView
    \/ ApplyTransformer

SpecCtl == InitCtl /\ [][NextCtl]_vars

-----------------------------------------------------------------------------
(* GraphBuilder: the host list under addHost, removeHost and clear.  A     *)
(* host is an object identity, a number, handed out in order of creation;  *)
(* its position (rx, x) is its index in the list.  No node is drawn here,  *)
(* so removeAllNodes and convert have nothing to act on.  last records     *)
(* the latest call: its name, its argument, the list before it and         *)
(* whether it threw.                                                       *)

MAX_HOSTS == 5

\* arr.indexOf(arg): the 0-based index of the first occurrence, else -1.
IndexOf(arr, arg) ==
    IF \E k \in 1..Len(arr) : arr[k] = arg
    THEN (CHOOSE k \in 1..Len(arr) : arr[k] = arg /\ \A j \in 1..(k - 1) : arr[j] # arg) - 1
    ELSE -1

\* arr.splice(start, 1): a negative start counts from the end of the array.
Splice1(arr, start) ==
    LET from == IF start < 0 THEN Max({Len(arr) + start, 0}) ELSE Min({start, Len(arr)})
    IN  [k \in 1..(Len(arr) - (IF from < Len(arr) THEN 1 ELSE 0)) |->
            IF k <= from THEN arr[k] ELSE arr[k + 1]]

\* Array.remove(arr, arg) for an arg that is not a function.
ArrayRemove(arr, arg) == Splice1(arr, IndexOf(arr, arg))

\* A variant of HostLimitReached that is off by one.
HostLimitExceeded(hosts) == Len(hosts) > MAX_HOSTS

\* this.hosts.length >= GraphBuilder.MAX_HOSTS
HostLimitReached(hosts) == Len(hosts) >= MAX_HOSTS

\* The hosts after addHost(), where next is the new host; unchanged when it
\* throws.
HostsAfterAdd(hosts, next) == IF HostLimitReached(hosts) THEN hosts ELSE Append(hosts, next)

\* The while loop of clear(): removeHost of the last host until none is left.
RECURSIVE RemoveAllHosts(_)
RemoveAllHosts(hosts) ==
    IF Len(hosts) > 0 THEN RemoveAllHosts(ArrayRemove(hosts, hosts[Len(hosts)])) ELSE hosts

Called(op, arg, before, threw) == [op |-> op, arg |-> arg, before |-> before, threw |-> threw]

\* new GraphBuilder(searchbox): no host, then addHost() twice.
InitHosts ==
    /\ gb = [pc |-> "hosts",
             hosts |-> HostsAfterAdd(HostsAfterAdd(<<>>, 1), 2),
             nextHost |-> 3,
             last |-> Called("new", 0, <<>>, FALSE)]
    /\ hmt = Idle /\ ctl = Idle /\ ab = Idle
    /\ ParserIdle

AddHost ==
    /\ gb.pc = "hosts"
    /\ gb.nextHost <= MaxHostIds
    /\ gb' = [gb EXCEPT
                !.hosts = HostsAfterAdd(gb.hosts, gb.nextHost),
                !.nextHost = IF HostLimitReached(gb.hosts) THEN @ ELSE @ + 1,
                !.last = Called("addHost", 0, gb.hosts, HostLimitReached(gb.hosts))]
    /\ UNCHANGED <<parserVars, hmt, ctl, ab>>

\* removeHost(host), for any host ever created: one in the list or one
\* removed from it earlier.
RemoveHost(host) ==
    /\ gb.pc = "hosts"
    /\ gb' = [gb EXCEPT
                !.hosts = ArrayRemove(gb.hosts, host),
                !.last = Called("removeHost", host, gb.hosts, FALSE)]
    /\ UNCHANGED <<parserVars, hmt, ctl, ab>>

Clear ==
    /\ gb.pc = "hosts"
    /\ gb.nextHost + 1 <= MaxHostIds
    /\ LET none == RemoveAllHosts(gb.hosts)
           one == HostsAfterAdd(none, gb.nextHost)
       IN  gb' = [gb EXCEPT
                    !.hosts = HostsAfterAdd(one, gb.nextHost + 1),
                    !.nextHost = @ + 2,
                    !.last = Called("clear", 0, gb.hosts, FALSE)]
    /\ UNCHANGED <<parserVars, hmt, ctl, ab>>

NextHosts ==
    \/ AddHost
    \/ \E host \in 1..MaxHostIds : host < gb.nextHost /\ RemoveHost(host)
    \/ Clear

SpecHosts == InitHosts /\ [][NextHosts]_vars

-----------------------------------------------------------------------------
(* GraphBuilder.toVectorClocks.  A drawn pattern is its hosts 1..H, its    *)
(* nodes, each a pair <<host, row>> (x is the host's, y grows with the     *)
(* row), and the children of each node, a set of pairs <<node, child>>.    *)
(* A host's chain is its nodes by growing y.  A vector timestamp is its    *)
(* clock, a function from the hosts to numbers, 0 for a host it has no     *)
(* entry for.                                                              *)

PatternHosts(n) == 1..n
PatternRows == 1..MaxRows
HostOfNode(node) == node[1]
YOf(node) == node[2]

\* host.getNodes(): the chain of a host.
ChainOf(nodes, host) == {node \in nodes : HostOfNode(node) = host}
\* The index of a node in its host's chain.
ChainIndex(nodes, node) ==
    Cardinality({m \in ChainOf(nodes, HostOfNode(node)) : YOf(m) < YOf(node)})

\* The edges a pattern may have: to a larger y on another host.
DownwardEdges(nodes) ==
    {e \in nodes \X nodes : YOf(e[1]) < YOf(e[2]) /\ HostOfNode(e[1]) # HostOfNode(e[2])}

\* update(other): the component-wise maximum.
Update(self, other) == [h \in DOMAIN self |-> Max({self[h], other[h]})]

\* new VectorTimestamp(clock, host) with clock[host] = index + 1.
InitialTimestamps(hosts, nodes) ==
    [node \in nodes |->
        [h \in hosts |-> IF h = HostOfNode(node) THEN ChainIndex(nodes, node) + 1 ELSE 0]]

\* getNodes().sort(by y): the nodes in host order, then stably by y.
RECURSIVE SortedByY(_)
SortedByY(nodes) ==
    IF nodes = {} THEN <<>>
    ELSE LET first == CHOOSE n \in nodes : \A m \in nodes :
                         \/ YOf(n) < YOf(m)
                         \/ YOf(n) = YOf(m) /\ HostOfNode(n) <= HostOfNode(m)
         IN  <<first>> \o SortedByY(nodes \ {first})

\* node.getChildren().forEach: every child takes in the node's timestamp
\* as it is at that moment.
UpdateChildren(vts, node, children) ==
    [m \in DOMAIN vts |->
        IF <<node, m>> \in children THEN Update(vts[m], vts[node]) ELSE vts[m]]

\* nodes.forEach over the nodes sorted by y.
RECURSIVE PropagateEdges(_, _, _)
PropagateEdges(vts, order, children) ==
    IF order = <<>> THEN vts
    ELSE PropagateEdges(UpdateChildren(vts, Head(order), children), Tail(order), children)

\* The loop over each host's chain: every node takes in what the nodes
\* before it on the chain hold.
PropagateChains(vts, nodes) ==
    [node \in nodes |->
        [h \in DOMAIN vts[node] |->
            Max({vts[m][h] : m \in {m \in ChainOf(nodes, HostOfNode(node)) :
                                        YOf(m) <= YOf(node)}})]]

\* toVectorClocks(): the timestamp of every node.
ToVectorClocks(hosts, nodes, children) ==
    PropagateChains(
        PropagateEdges(InitialTimestamps(hosts, nodes), SortedByY(nodes), children),
        nodes)

\* The subsets of S that have at most k members.
RECURSIVE SubsetsUpTo(_, _)
SubsetsUpTo(S, k) ==
    IF k = 0 THEN {{}}
    ELSE LET smaller == SubsetsUpTo(S, k - 1)
         IN  smaller \cup {T \cup {e} : T \in smaller, e \in S}

\* A drawn pattern whose edges all go to a larger y on another host.
InitClocks ==
    /\ \E n \in 1..MaxPatternHosts :
       \E nodes \in SubsetsUpTo(PatternHosts(n) \X PatternRows, MaxPatternNodes) :
       \E children \in SubsetsUpTo(DownwardEdges(nodes), MaxPatternEdges) :
          gb = [pc |-> "pattern",
                hosts |-> PatternHosts(n),
                nodes |-> nodes,
                children |-> children,
                vts |-> <<>>]
    /\ hmt = Idle /\ ctl = Idle /\ ab = Idle
    /\ ParserIdle

CallToVectorClocks ==
    /\ gb.pc = "pattern"
    /\ gb' = [gb EXCEPT !.pc = "clocks",
                        !.vts = ToVectorClocks(gb.hosts, gb.nodes, gb.children)]
    /\ UNCHANGED <<parserVars, hmt, ctl, ab>>

NextClocks == CallToVectorClocks

SpecClocks == InitClocks /\ [][NextClocks]_vars

-----------------------------------------------------------------------------
(* GraphBuilder.bind: drawing a pattern with the mouse.  Lengths are in    *)
(* tenths of a pixel.  A node is its position <<x, y>>: no two nodes of    *)
(* the hosts share one.  active holds the nodes whose state is "active",   *)
(* children the drawn edges <<parent, child>>, hover the cx, cy and        *)
(* hidden of $hover, mouse the pointer's position (<<0, 0>> outside the    *)
(* svg), drags the parents of the mousemove/mouseup/mouseout handlers that *)
(* circle mousedowns have bound on the svg, in the order bound, threw      *)
(* tells that the last event's handler threw a TypeError, and pressed that *)
(* the mouse button is held down: the events are those of one pointer with *)
(* one button.                                                             *)

START_OFFSET == 625
Y_SPACING == 500
BOX == 250
HALF_BOX == BOX \div 2
HOST_SPACING == 650
HOST_INSET == 125
\* h.x of the host with index col - 1.
HostX(col) == (col - 1) * HOST_SPACING + HOST_INSET
RowY(row) == row * Y_SPACING + HALF_BOX
\* How far below a row's centre the pointer may be: within a node's circle.
MouseOffset == 25
Outside == <<0, 0>>
MousePositions(hosts) ==
    {<<HostX(col), RowY(row) + off>> :
        col \in 1..hosts, row \in 0..MaxMouseRow, off \in {0, MouseOffset}}

\* getNodeByCoord(x, y): whether a node is there.
NodeAt(g, x, y) == <<x, y>> \in g.nodes
\* getHostByX(x): whether a host is there.
HostAt(g, x) == \E col \in 1..g.hosts : HostX(col) = x

\* Math.round((y - HALF_BOX) / Y_SPACING) for y >= HALF_BOX.
RoundRow(y) == (2 * (y - HALF_BOX) + Y_SPACING) \div (2 * Y_SPACING)

\* arr of the mousemove handler: three candidates per host.
Candidates(hosts, y) ==
    LET dy == Max({START_OFFSET, RoundRow(y) * Y_SPACING + HALF_BOX})
    IN  [k \in 1..(3 * hosts) |->
            <<HostX(((k - 1) \div 3) + 1),
              CASE (k - 1) % 3 = 0 -> dy
                [] (k - 1) % 3 = 1 -> dy - Y_SPACING
                [] OTHER -> dy + Y_SPACING>>]

\* isValid(c): no active node shares exactly one coordinate with c.
IsValid(g, c) ==
    ~\E n \in g.nodes : n \in g.active /\ ((n[1] = c[1]) # (n[2] = c[2]))

Dist2(c, x, y) == (x - c[1]) * (x - c[1]) + (y - c[2]) * (y - c[2])
\* closest(array, x, y) of a non-empty array: the first of the nearest.
Closest(array, x, y) ==
    array[CHOOSE k \in 1..Len(array) :
             /\ \A j \in 1..Len(array) : Dist2(array[k], x, y) <= Dist2(array[j], x, y)
             /\ \A j \in 1..(k - 1) : Dist2(array[j], x, y) > Dist2(array[k], x, y)]

\* The svg's mousemove handler.
SvgMouseMove(g, x, y) ==
    LET arr == SelectSeq(Candidates(g.hosts, y), LAMBDA c : IsValid(g, c))
        c == Closest(arr, x, y)
    IN  IF arr = <<>> THEN g
        ELSE [g EXCEPT !.hover = [x |-> c[1], y |-> c[2],
                                  hidden |-> (y < BOX \/ c[2] < BOX)]]

\* context.bind(): the svg's handlers are unbound and the three of the
\* constructor bound again.
Bind(g) == [g EXCEPT !.drags = <<>>]

\* getHostByX(x).addNode(y, tmp): the node exists, and its circle has the
\* mousedown handler, which takes a call of bind().
AddNode(g, x, y) == Bind([g EXCEPT !.nodes = @ \cup {<<x, y>>}])

\* The mousedown handler of a node's circle.
CircleMouseDown(g, node) ==
    [g EXCEPT !.active = @ \cup {node}, !.drags = Append(@, node)]

\* The svg's mousedown handler; $c.mousedown() runs the new circle's
\* handler, and this one once more, which then finds the node.
SvgMouseDown(g) ==
    IF ~NodeAt(g, g.hover.x, g.hover.y) /\ ~g.hover.hidden
    THEN IF HostAt(g, g.hover.x)
         THEN CircleMouseDown(AddNode(g, g.hover.x, g.hover.y), <<g.hover.x, g.hover.y>>)
         ELSE [g EXCEPT !.threw = TRUE]
    ELSE g

\* parent.addChild(child) or child.addChild(parent): the parent of the new
\* edge is `parent` only when its y is the smaller one.
AddChild(g, parent, other) ==
    [g EXCEPT !.children = @ \cup {IF parent[2] < other[2] THEN <<parent, other>>
                                   ELSE <<other, parent>>}]

\* The mouseup handler bound by the mousedown on parent's circle.  When
\* no node is at the hover and the hover is hidden, existing is null and
\* reading existing.y throws.
DragMouseUp(g, parent) ==
    LET hx == g.hover.x
        hy == g.hover.y
        done(h) == Bind([h EXCEPT !.active = @ \ {parent}])
    IN  IF ~NodeAt(g, hx, hy) /\ ~g.hover.hidden
        THEN IF HostAt(g, hx)
             THEN done(AddChild(AddNode(g, hx, hy), parent, <<hx, hy>>))
             ELSE [g EXCEPT !.threw = TRUE]
        ELSE IF NodeAt(g, hx, hy) /\ <<hx, hy>> = parent THEN done(g)
        ELSE IF ~NodeAt(g, hx, hy) THEN [g EXCEPT !.threw = TRUE]
        ELSE done(AddChild(g, parent, <<hx, hy>>))

\* getHostByNode(parent).removeNode(parent): the node and its edges go.
RemoveNode(g, node) ==
    [g EXCEPT !.nodes = @ \ {node},
              !.active = @ \ {node},
              !.children = {e \in @ : e[1] # node /\ e[2] # node}]

\* The mouseout handler bound by the mousedown on parent's circle, when
\* the pointer leaves the svg.
DragMouseOut(g, parent) == Bind(RemoveNode(g, parent))

\* jQuery runs the handlers that were bound when the event was dispatched,
\* in the order bound, until one throws.
RECURSIVE Dispatch(_, _, _)
Dispatch(g, queue, mouseUp) ==
    IF queue = <<>> \/ g.threw THEN g
    ELSE Dispatch(IF mouseUp THEN DragMouseUp(g, Head(queue))
                  ELSE DragMouseOut(g, Head(queue)),
                  Tail(queue), mouseUp)

\* new GraphBuilder(searchbox), and addHost() as often as the hosts take.
InitDraw ==
    /\ gb = [pc |-> "draw",
             hosts |-> DrawHosts,
             nodes |-> {},
             active |-> {},
             children |-> {},
             hover |-> [x |-> 0, y |-> 0, hidden |-> FALSE],
             mouse |-> Outside,
             drags |-> <<>>,
             threw |-> FALSE,
             pressed |-> FALSE]
    /\ hmt = Idle /\ ctl = Idle /\ ab = Idle
    /\ ParserIdle

\* The nodes and the bound handlers stay within the bounds.
WithinDrawBounds(g) ==
    /\ Cardinality(g.nodes) <= MaxDrawNodes
    /\ Len(g.drags) <= MaxDrags

\* mousemove: the pointer moves to <<x, y>> of the svg.
MouseMove(x, y) ==
    /\ gb.pc = "draw"
    /\ gb' = [SvgMouseMove([gb EXCEPT !.threw = FALSE], x, y) EXCEPT !.mouse = <<x, y>>]
    /\ UNCHANGED <<parserVars, hmt, ctl, ab>>

\* mousedown where the pointer is: on the circle of the node under it, if
\* there is one, and then, bubbling, on the svg.
MouseDown ==
    /\ gb.pc = "draw"
    /\ gb.mouse # Outside
    /\ ~gb.pressed
    /\ LET g == [gb EXCEPT !.threw = FALSE, !.pressed = TRUE]
           under == {n \in g.nodes :
                        n[1] = g.mouse[1] /\ g.mouse[2] - n[2] \in {0, MouseOffset}}
           pressed == IF under = {} THEN g ELSE CircleMouseDown(g, CHOOSE n \in under : TRUE)
       IN  /\ WithinDrawBounds(SvgMouseDown(pressed))
           /\ gb' = SvgMouseDown(pressed)
    /\ UNCHANGED <<parserVars, hmt, ctl, ab>>

\* mouseup on the svg.
MouseUp ==
    /\ gb.pc = "draw"
    /\ gb.mouse # Outside
    /\ gb.pressed
    /\ LET after == Dispatch([gb EXCEPT !.threw = FALSE, !.pressed = FALSE], gb.drags, TRUE)
       IN  /\ WithinDrawBounds(after)
           /\ gb' = after
    /\ UNCHANGED <<parserVars, hmt, ctl, ab>>

\* mouseout with a relatedTarget outside the svg: the pointer leaves, and
\* the button is released, if it was held, before the pointer is back.
MouseOut ==
    /\ gb.pc = "draw"
    /\ gb.mouse # Outside
    /\ gb' = [Dispatch([gb EXCEPT !.threw = FALSE, !.pressed = FALSE], gb.drags, FALSE)
                EXCEPT !.mouse = Outside]
    /\ UNCHANGED <<parserVars, hmt, ctl, ab>>

NextDraw ==
    \/ \E m \in MousePositions(DrawHosts) : MouseMove(m[1], m[2])
    \/ MouseDown
    \/ MouseUp
    \/ MouseOut

SpecDraw == InitDraw /\ [][NextDraw]_vars

-----------------------------------------------------------------------------
(* Abbreviation.generateFromStrings.  A string is a sequence of            *)
(* characters.  A fitter is a function from strings to booleans; the ones  *)
(* modelled accept the strings up to some width, or the bare ellipsis      *)
(* only.                                                                   *)

ABBREV_CHARS == 3
ELLIPSIS == <<".", ".">>
AbbrevAlphabet == {"a", "b"}
AbbrevStringsUpTo(n) == UNION {[1..k -> AbbrevAlphabet] : k \in 0..n}
\* The code unit of a character.
CodeUnit(c) == CASE c = "," -> 44 [] c = "." -> 46 [] c = "a" -> 97 [] OTHER -> 98

WidthFitter(w) == [kind |-> "width", width |-> w]
EllipsisFitter == [kind |-> "ellipsis", width |-> 0]
Fitters == {WidthFitter(w) : w \in Len(ELLIPSIS)..MaxWidth} \cup {EllipsisFitter}
\* isFit(string)
IsFit(fitter, string) ==
    IF fitter.kind = "width" THEN Len(string) <= fitter.width ELSE string = ELLIPSIS

\* Util.reverseString
ReverseString(str) == [k \in 1..Len(str) |-> str[Len(str) + 1 - k]]
StartsWith(str, affix) == Len(affix) <= Len(str) /\ SubSeq(str, 1, Len(affix)) = affix
EndsWith(str, affix) ==
    Len(affix) <= Len(str) /\ SubSeq(str, Len(str) - Len(affix) + 1, Len(str)) = affix

\* new Abbreviation(prefix, root, suffix)
Abbreviation(prefix, root, suffix) ==
    IF root # <<>> THEN [prefix |-> prefix, root |-> root, suffix |-> suffix]
    ELSE IF prefix # <<>> THEN [prefix |-> <<>>, root |-> prefix, suffix |-> suffix]
    ELSE [prefix |-> <<>>, root |-> suffix, suffix |-> <<>>]

GetOriginalString(abbrev) == abbrev.prefix \o abbrev.root \o abbrev.suffix

Ellipsify(string) == IF Len(string) < ABBREV_CHARS THEN string ELSE ELLIPSIS

\* A variant of GetEllipsesString without the case of the empty root.
GetEllipsesStringOfAffixes(abbrev) ==
    Ellipsify(abbrev.prefix) \o abbrev.root \o Ellipsify(abbrev.suffix)

GetEllipsesString(abbrev) ==
    IF abbrev.root = <<>> THEN ELLIPSIS
    ELSE Ellipsify(abbrev.prefix) \o abbrev.root \o Ellipsify(abbrev.suffix)

ShiftPrefix(abbrev) ==
    [abbrev EXCEPT
        !.prefix = IF abbrev.root # <<>> THEN Append(@, Head(abbrev.root)) ELSE @,
        !.root = IF abbrev.root # <<>> THEN Tail(@) ELSE @]

ShiftSuffix(abbrev) ==
    [abbrev EXCEPT
        !.suffix = IF abbrev.root # <<>> THEN <<abbrev.root[Len(abbrev.root)]>> \o @ ELSE @,
        !.root = IF abbrev.root # <<>> THEN SubSeq(@, 1, Len(@) - 1) ELSE @]

\* One turn of findPrefix's loop looks at character `at` of the strings of
\* prevMaxBucket: those that have one, by character, in the order the
\* characters first appear; maxBucket is the first largest bucket.
HavingChar(bucket, at) == SelectSeq(bucket, LAMBDA str : Len(str) > at)
Bucket(bucket, at, char) == SelectSeq(HavingChar(bucket, at), LAMBDA str : str[at + 1] = char)
FirstAppearance(bucket, at, char) ==
    Min({k \in 1..Len(HavingChar(bucket, at)) : HavingChar(bucket, at)[k][at + 1] = char})
MaxBucket(bucket, at) ==
    LET chars == {HavingChar(bucket, at)[k][at + 1] : k \in 1..Len(HavingChar(bucket, at))}
    IN  IF chars = {} THEN <<>>
        ELSE Bucket(bucket, at,
                    CHOOSE c \in chars : \A d \in chars :
                       \/ Len(Bucket(bucket, at, c)) > Len(Bucket(bucket, at, d))
                       \/ /\ Len(Bucket(bucket, at, c)) = Len(Bucket(bucket, at, d))
                          /\ FirstAppearance(bucket, at, c) <= FirstAppearance(bucket, at, d))

\* findPrefix: the while loop, then the result; count is prevMaxBucket.
RECURSIVE FindPrefixLoop(_, _, _)
FindPrefixLoop(prevMaxBucket, at, prevMaxCount) ==
    LET more == HavingChar(prevMaxBucket, at) # <<>>
        maxBucket == MaxBucket(prevMaxBucket, at)
    IN  IF Len(maxBucket) >= prevMaxCount
        THEN IF more THEN FindPrefixLoop(maxBucket, at + 1, Len(maxBucket))
             ELSE [prefix |-> IF Len(maxBucket) > 1 THEN SubSeq(maxBucket[1], 1, at + 1) ELSE <<>>,
                   count |-> maxBucket]
        ELSE [prefix |-> IF Len(prevMaxBucket) > 1 THEN SubSeq(prevMaxBucket[1], 1, at) ELSE <<>>,
              count |-> prevMaxBucket]
FindPrefix(strings) == FindPrefixLoop(strings, 0, 0)

FindSuffix(strings) ==
    LET revSuffixInfo == FindPrefix([k \in 1..Len(strings) |-> ReverseString(strings[k])])
    IN  [suffix |-> ReverseString(revSuffixInfo.prefix), count |-> revSuffixInfo.count]

\* An array where a primitive is wanted: its elements joined by commas.
RECURSIVE Join(_)
Join(array) ==
    IF array = <<>> THEN <<>>
    ELSE IF Len(array) = 1 THEN array[1]
    ELSE array[1] \o <<",">> \o Join(Tail(array))
\* a > b on strings: by code unit at the first difference, else by length.
StringGreater(a, b) ==
    \/ \E k \in 1..Min({Len(a), Len(b)}) :
          /\ SubSeq(a, 1, k - 1) = SubSeq(b, 1, k - 1)
          /\ CodeUnit(a[k]) > CodeUnit(b[k])
    \/ Len(a) > Len(b) /\ SubSeq(a, 1, Len(b)) = b

\* abbrevStrings: one Abbreviation per string, with the common prefix or
\* the common suffix split off.
AbbrevStrings(strings) ==
    LET prefixInfo == FindPrefix(strings)
        suffixInfo == FindSuffix(strings)
        usePrefix == StringGreater(Join(prefixInfo.count), Join(suffixInfo.count))
        prefix == IF usePrefix THEN prefixInfo.prefix ELSE <<>>
        suffix == IF usePrefix THEN <<>> ELSE suffixInfo.suffix
    IN  [k \in 1..Len(strings) |->
            LET str == strings[k]
                cutPre == prefix # <<>> /\ StartsWith(str, prefix)
                root1 == IF cutPre THEN SubSeq(str, Len(prefix) + 1, Len(str)) ELSE str
                cutSuf == suffix # <<>> /\ EndsWith(root1, suffix)
                root2 == IF cutSuf THEN SubSeq(root1, 1, Len(root1) - Len(suffix)) ELSE root1
            IN  Abbreviation(IF cutPre THEN prefix ELSE <<>>, root2,
                             IF cutSuf THEN suffix ELSE <<>>)]

\* The lists of at most n distinct strings: the keys of stringsToFitter.
RECURSIVE KeyLists(_, _)
KeyLists(S, n) ==
    IF n = 0 THEN {<<>>}
    ELSE {<<>>} \cup UNION {{<<str>> \o l : l \in KeyLists(S \ {str}, n - 1)} : str \in S}

\* The entry of truncate(abbrev, isFit) for abbreviation k, if there is one.
EnterTruncate(state, k) ==
    IF k <= Len(state.abbrevs)
    THEN [state EXCEPT !.k = k,
                       !.leftAlways = state.abbrevs[k].prefix # <<>>,
                       !.rightAlways = state.abbrevs[k].suffix # <<>>,
                       !.isLeftNext = state.abbrevs[k].prefix # <<>>,
                       !.shifts = 0,
                       !.shifted = FALSE]
    ELSE [state EXCEPT !.pc = "done", !.k = k, !.shifted = FALSE]

\* generateFromStrings(stringsToFitter), up to the first call of truncate.
\* shifts counts the turns of the current truncate loop; shifted tells
\* that the last step was such a turn and rootBefore the root it found.
InitAbbrev ==
    /\ \E strings \in KeyLists(AbbrevStringsUpTo(MaxStrLen), MaxStrings) :
       \E fitters \in [1..Len(strings) -> Fitters] :
          ab = EnterTruncate([pc |-> "truncate",
                              strings |-> strings,
                              fitters |-> fitters,
                              abbrevs |-> AbbrevStrings(strings),
                              k |-> 1,
                              leftAlways |-> FALSE,
                              rightAlways |-> FALSE,
                              isLeftNext |-> FALSE,
                              shifts |-> 0,
                              shifted |-> FALSE,
                              rootBefore |-> <<>>], 1)
    /\ hmt = Idle /\ ctl = Idle /\ gb = Idle
    /\ ParserIdle

\* One test of truncate's while condition: a turn of the loop, or the
\* return and the call of truncate on the next abbreviation.
TruncateLoop ==
    /\ ab.pc = "truncate"
    /\ LET abbrev == ab.abbrevs[ab.k]
       IN  IF ~IsFit(ab.fitters[ab.k], GetEllipsesString(abbrev))
           THEN ab' = [ab EXCEPT
                         !.abbrevs[ab.k] = IF ab.isLeftNext THEN ShiftPrefix(abbrev)
                                           ELSE ShiftSuffix(abbrev),
                         !.isLeftNext = IF ab.leftAlways = ab.rightAlways
                                        THEN ~ab.isLeftNext ELSE ab.leftAlways,
                         !.shifts = @ + 1,
                         !.shifted = TRUE,
                         !.rootBefore = abbrev.root]
           ELSE ab' = EnterTruncate(ab, ab.k + 1)
    /\ UNCHANGED <<parserVars, hmt, ctl, gb>>

NextAbbrev == TruncateLoop

SpecAbbrev == InitAbbrev /\ [][NextAbbrev]_vars

-----------------------------------------------------------------------------
(* What the text says, stated on the trimmed text (this.rawString, once   *)
(* the constructor has started): the delimiter matches by position, the    *)
(* segments between them, and the events of a segment.                     *)

WellFormedPattern == regexpNames = RequiredNames
DelimPositions == {k \in 1..Len(rawString) : rawString[k] \in DelimTokens(delimiter)}
NumMatches == Cardinality(DelimPositions)
\* The n-th smallest member of a set of positions.
Nth(S, n) == CHOOSE p \in S : Cardinality({q \in S : q < p}) = n - 1
\* Segment j (0-based): the text between match j and match j + 1.
SegmentFrom(j) == IF j = 0 THEN 1 ELSE Nth(DelimPositions, j) + 1
SegmentTo(j) == IF j = NumMatches THEN Len(rawString) ELSE Nth(DelimPositions, j + 1) - 1
Segment(j) == SubSeq(rawString, SegmentFrom(j), SegmentTo(j))
NonBlank(seg) == \E k \in 1..Len(seg) : seg[k] \notin Whitespace
NonBlankSegments == {j \in 0..NumMatches : NonBlank(Segment(j))}
\* The trace captured by the match that immediately precedes segment j.
PrecedingTrace(j) == IF j = 0 THEN "" ELSE TraceOf(rawString[Nth(DelimPositions, j)])

EventPositions(seg) == {k \in 1..Len(seg) : seg[k] \in EventTokens}
NewlinesBefore(seg, p) == Cardinality({q \in 1..(p - 1) : seg[q] = Newline})
\* The events of a text under a well-formed pattern, in textual order.
ExpectedEvents(seg) ==
    [n \in 1..Cardinality(EventPositions(seg)) |->
        LET p == Nth(EventPositions(seg), n)
        IN  [text |-> seg[p],
             timestamp |-> [clock |-> ClockOf(seg[p]), host |-> HostOf(seg[p])],
             lineNum |-> 1 + NewlinesBefore(seg, p)]]
MalformedClockInText == \E k \in 1..Len(rawString) : rawString[k] = "bj"

-----------------------------------------------------------------------------
(* The claims. *)

\* C1: with a delimiter that defines the group `trace`, every non-blank
\* segment is stored under the trace captured by the delimiter match that
\* immediately precedes it, and the non-blank segment before the first match
\* under "".  Stated of segment i - 1 right after the loop handled it.
C1_StoredUnderPrecedingTrace ==
    (/\ delimiter = "trace"
     /\ pc \in {"segments", "done"}
     /\ i >= 1
     /\ i - 1 <= NumMatches
     /\ NonBlank(Segment(i - 1)))
    => /\ PrecedingTrace(i - 1) \in DOMAIN executions
       /\ executions[PrecedingTrace(i - 1)].rawString = Segment(i - 1)
       /\ executions[PrecedingTrace(i - 1)].label = PrecedingTrace(i - 1)
       /\ Len(labels) > 0
       /\ labels[Len(labels)] = PrecedingTrace(i - 1)

\* A non-blank first segment was stored under "" and the non-blank segment
\* after the first match under that match's trace "a".
C1_Witness ==
    /\ delimiter = "trace"
    /\ pc = "segments"
    /\ i = 2
    /\ NumMatches >= 1
    /\ NonBlank(Segment(0))
    /\ NonBlank(Segment(1))
    /\ PrecedingTrace(1) = "a"
    /\ DOMAIN executions = {"", "a"}

\* C2: when a matched event's clock cannot be parsed, the construction is
\* aborted with the user-facing parse error that carries the 1-based line
\* number of the offending event.
C2_UserFacingParseError ==
    (pc = "failed" /\ WellFormedPattern)
    => /\ error.type = "Exception"
       /\ error.userFriendly
       /\ error.line = 1 + NewlinesBefore(ep.rawString, lastIndex)

\* C3 as claimed: when the delimiter has no match in the text (none is
\* supplied, or the supplied one never matches), a completed construction
\* has exactly one execution, labelled "", with all events of the text in
\* textual order.
C3_OneExecutionWithoutMatch ==
    (pc = "done" /\ WellFormedPattern /\ NumMatches = 0)
    => /\ labels = <<"">>
       /\ DOMAIN executions = {""}
       /\ executions[""].logEvents = ExpectedEvents(rawString)

\* C3 as amended: the same, provided no delimiter is supplied or the trimmed
\* text is not empty; with a delimiter and an empty trimmed text there is no
\* execution and no label.
C3_OneExecutionUnlessEmpty ==
    (pc = "done" /\ WellFormedPattern /\ NumMatches = 0)
    => IF delimiter = "null" \/ rawString # <<>>
       THEN /\ labels = <<"">>
            /\ DOMAIN executions = {""}
            /\ executions[""].logEvents = ExpectedEvents(rawString)
       ELSE /\ labels = <<>>
            /\ DOMAIN executions = {}

\* A supplied delimiter never matched and the one execution has two events.
C3_Witness ==
    /\ pc = "done"
    /\ WellFormedPattern
    /\ delimiter # "null"
    /\ NumMatches = 0
    /\ "" \in DOMAIN executions
    /\ Len(executions[""].logEvents) >= 2

\* C4: after the split, getLabels() has exactly one label per non-blank
\* segment, in the order of the segments; a blank segment creates no
\* execution and no label, and the labels of the other segments stay theirs.
C4_OneLabelPerNonBlankSegment ==
    (pc = "done" /\ delimiter # "null")
    => /\ Len(labels) = Cardinality(NonBlankSegments)
       /\ delimiter = "trace" =>
             \A k \in 1..Len(labels) :
                labels[k] = PrecedingTrace(Nth(NonBlankSegments, k))
       /\ DOMAIN executions = {ToKey(labels[k]) : k \in 1..Len(labels)}
       /\ ret.kind = "labels" => ret.val = labels

\* getLabels() was called after a text with a blank, non-empty segment
\* followed by a non-blank one.
C4_Witness ==
    /\ pc = "done"
    /\ delimiter = "trace"
    /\ ret.kind = "labels"
    /\ \E j \in 0..NumMatches :
          /\ ~NonBlank(Segment(j))
          /\ Len(Segment(j)) > 0
          /\ \E j2 \in (j + 1)..NumMatches : NonBlank(Segment(j2))

\* The line numbers of the events an ExecutionParser has parsed so far.
LineNumbersHold(parser) ==
    \A k \in 1..Len(parser.logEvents) :
       /\ k <= Cardinality(EventPositions(parser.rawString))
       /\ parser.logEvents[k].lineNum =
             1 + NewlinesBefore(parser.rawString, Nth(EventPositions(parser.rawString), k))
       /\ k > 1 => parser.logEvents[k - 1].lineNum <= parser.logEvents[k].lineNum

\* C5: the line number of every parsed event is 1 + the number of newlines
\* before its match in the text of its execution, and the line numbers of an
\* execution never decrease.
C5_LineNumbers ==
    /\ LineNumbersHold(ep)
    /\ \A key \in DOMAIN executions : LineNumbersHold(executions[key])

\* An execution was stored with one event on line 1 and one on line 2.
C5_Witness ==
    \E key \in DOMAIN executions :
       /\ Len(executions[key].logEvents) = 2
       /\ executions[key].logEvents[1].lineNum = 1
       /\ executions[key].logEvents[2].lineNum = 2


\* Segment j is the last of several non-blank segments with its label.
LastWithLabel(j) ==
    /\ j \in NonBlankSegments
    /\ \E j1 \in NonBlankSegments : j1 < j /\ At(currLabels, j1) = At(currLabels, j)
    /\ ~ \E j3 \in NonBlankSegments : j3 > j /\ At(currLabels, j3) = At(currLabels, j)

\* C6: when two or more non-blank segments get the same label L, the
\* construction is not aborted for it, and getLogEvents(L) returns the
\* events of the last such segment, in textual order.
C6_LastSegmentWins ==
    /\ pc = "failed" => (WellFormedPattern => MalformedClockInText)
    /\ (pc = "done" /\ WellFormedPattern /\ delimiter # "null"
           /\ ret.kind \notin {"none", "labels"})
       => \A j \in 0..NumMatches :
             (LastWithLabel(j) /\ At(currLabels, j) = ret.call)
             => ret.kind = "array" /\ ret.val = ExpectedEvents(Segment(j))

\* getLogEvents("a") was called after two segments labelled "a" with
\* different events.
C6_Witness ==
    /\ pc = "done"
    /\ delimiter = "trace"
    /\ ret.kind = "array"
    /\ ret.call = "a"
    /\ \E j \in 0..NumMatches :
          /\ LastWithLabel(j)
          /\ At(currLabels, j) = "a"
          /\ \E j1 \in NonBlankSegments :
                /\ j1 < j
                /\ At(currLabels, j1) = "a"
                /\ ExpectedEvents(Segment(j1)) # ExpectedEvents(Segment(j))

\* C7: getLogEvents(label) returns the execution's events for a label of
\* getLabels() and the not-found value null for every other label.
C7_EventsOrNull ==
    (pc = "done" /\ WellFormedPattern /\ ret.kind \notin {"none", "labels"})
    => IF ToKey(ret.call) \in {ToKey(labels[k]) : k \in 1..Len(labels)}
       THEN ret.kind = "array"
       ELSE ret.kind = "null"

\* C8: with an event pattern that lacks `clock`, `event` or `host`, the
\* construction never completes, and it fails before any text is processed.
C8_FailsBeforeProcessing ==
    ~WellFormedPattern
    => /\ pc # "done"
       /\ pc = "failed" => (ep = NoExecutionParser /\ lastIndex = 0)

\* C9: the label of every execution is a string, whether or not the
\* delimiter defines `trace`.
C9_LabelsAreStrings ==
    /\ \A k \in 1..Len(labels) : labels[k] # Undefined
    /\ \A key \in DOMAIN executions : executions[key].label # Undefined

\* The traces of the N delimiter matches, and the labels they may give.
DistinctTraces ==
    \A m1, m2 \in 1..NumMatches : m1 # m2 => PrecedingTrace(m1) # PrecedingTrace(m2)
NonEmptyTraces == \A m \in 1..NumMatches : PrecedingTrace(m) # ""
EmptyLabelOnlyFirst ==
    /\ Len(labels) <= NumMatches + 1
    /\ \A k \in 1..Len(labels) :
          labels[k] = "" =>
             (k <= Cardinality(NonBlankSegments) /\ Nth(NonBlankSegments, k) = 0)

\* C10 as claimed: when every delimiter match captures a distinct trace,
\* there are at most N + 1 labels and only the segment before the first
\* match is labelled "".
C10_EmptyLabelOnlyFirst ==
    (pc = "done" /\ delimiter = "trace" /\ DistinctTraces) => EmptyLabelOnlyFirst

\* C10 as amended: the same when every match captures a distinct trace that
\* is not the empty string.
C10_EmptyLabelOnlyFirstNonEmptyTraces ==
    (pc = "done" /\ delimiter = "trace" /\ DistinctTraces /\ NonEmptyTraces)
    => EmptyLabelOnlyFirst

\* Two matches with the traces "a" and "b", a non-blank first segment
\* labelled "" and one labelled segment after it.
C10_Witness ==
    /\ pc = "done"
    /\ delimiter = "trace"
    /\ NumMatches = 2
    /\ DistinctTraces
    /\ NonEmptyTraces
    /\ Len(labels) = 2
    /\ labels[1] = ""

\* C11: a construction's labels and events do not depend on the
\* constructions performed before it with the same pattern objects: with
\* no delimiter and a well-formed pattern, a finished construction holds
\* exactly the events of its own text.
C11_EventsIndependentOfEarlierConstructions ==
    (pc = "done" /\ WellFormedPattern /\ delimiter = "null")
    => /\ "" \in DOMAIN executions
       /\ executions[""].logEvents = ExpectedEvents(rawString)

\* C12: when ignoreEdges is true, transform leaves the colour of every
\* visual edge as it was, and still enlarges the matched nodes.
C12_IgnoredEdgesKeepColor ==
    (hmt.pc = "transformed" /\ hmt.ignoredEdges)
    => /\ hmt.color = hmt.beforeColor
       /\ hmt.radius = EnlargeNodes(hmt.beforeRadius, hmt.motifNodes)

\* What the log of a call of transform() holds once the first reverted
\* views and the first applied transformers are counted.
ExpectedLog(reverted, applied) ==
    [k \in 1..reverted |-> <<"revert", ctl.views[k]>>]
    \o [k \in 1..applied |-> <<"transform", k>>]
CtlViewsInCall == {ctl.views[k] : k \in 1..Len(ctl.views)}

\* C13: in every call of Controller.transform() each view is reverted
\* before any transformer is applied, then every registered transformer is
\* applied exactly once in the order added; and when the transformers are
\* applied, each one that referenced a view's pre-revert model references
\* that view's post-revert model.
C13_RevertThenApplyInOrder ==
    /\ ctl.pc = "revert" =>
          \E r \in 0..Len(ctl.views) : ctl.log = ExpectedLog(r, 0)
    /\ ctl.pc = "apply" =>
          /\ \E a \in 0..Len(ctl.transformers) : ctl.log = ExpectedLog(Len(ctl.views), a)
          /\ Len(ctl.transformers) = Len(ctl.started)
    /\ (ctl.pc = "ready" /\ ctl.calls > 0) =>
          ctl.log = ExpectedLog(Len(ctl.views), Len(ctl.transformers))
    /\ (ctl.pc \in {"apply", "ready"} /\ ctl.calls > 0) =>
          \A t \in 1..Len(ctl.transformers) : \A view \in CtlViewsInCall :
             (t <= Len(ctl.started) /\ ctl.started[t].model = ctl.before[view])
             => ctl.transformers[t].model = ctl.model[view]

\* A call of transform() has returned in which two transformers were
\* applied and one of them followed its view to a new visual model.
C13_Witness ==
    /\ ctl.pc = "ready"
    /\ ctl.calls >= 2
    /\ Len(ctl.transformers) >= 2
    /\ Len(ctl.views) = NumViews
    /\ \E t \in 1..Len(ctl.transformers) : \E view \in CtlViewsInCall :
          /\ ctl.started[t].model = ctl.before[view]
          /\ ctl.model[view] # ctl.before[view]
          /\ ctl.transformers[t].model = ctl.model[view]

\* C14: a GraphBuilder holds at most MAX_HOSTS hosts; addHost called with
\* MAX_HOSTS hosts present throws and leaves the list unchanged; clear()
\* ends with exactly two hosts.
C14_AtMostMaxHosts ==
    gb.pc = "hosts"
    => /\ Len(gb.hosts) <= MAX_HOSTS
       /\ (gb.last.op = "addHost" /\ Len(gb.last.before) >= MAX_HOSTS)
             => (gb.last.threw /\ gb.hosts = gb.last.before)
       /\ (gb.last.op = "addHost" /\ Len(gb.last.before) < MAX_HOSTS)
             => (~gb.last.threw /\ Len(gb.hosts) = Len(gb.last.before) + 1)
       /\ gb.last.op = "clear" => Len(gb.hosts) = 2

\* addHost() has just thrown with MAX_HOSTS hosts present.
C14_Witness ==
    /\ gb.pc = "hosts"
    /\ gb.last.op = "addHost"
    /\ gb.last.threw
    /\ Len(gb.hosts) = MAX_HOSTS

\* C16: removeHost(h) removes no host other than h: the hosts other than
\* h stay in the list in their order, also when h is not in the list.
C16_RemovesOnlyThatHost ==
    (gb.pc = "hosts" /\ gb.last.op = "removeHost")
    => gb.hosts = SelectSeq(gb.last.before, LAMBDA h : h # gb.last.arg)

\* X precedes Y in the drawn pattern: Y is a child of X, or X is earlier
\* than Y on the chain of their host.
Precedes(x, y) ==
    \/ <<x, y>> \in gb.children
    \/ HostOfNode(x) = HostOfNode(y) /\ YOf(x) < YOf(y)
TimestampLeq(a, b) == \A h \in DOMAIN a : a[h] <= b[h]

\* C15: whenever node X precedes node Y in the drawn pattern, the
\* timestamp toVectorClocks() produces for X is component-wise less than
\* or equal to the one it produces for Y.
C15_ClocksPreserveHappensBefore ==
    gb.pc = "clocks"
    => \A x \in gb.nodes : \A y \in gb.nodes :
          Precedes(x, y) => TimestampLeq(gb.vts[x], gb.vts[y])

\* C18: every turn of a truncate loop strictly shortens the root, no turn
\* changes getOriginalString(), the loop of an abbreviation takes no more
\* turns than its string has characters, and it ends with an ellipses
\* string its fitter accepts.
C18_TruncateTerminates ==
    ab.pc \in {"truncate", "done"}
    => /\ \A j \in 1..Len(ab.abbrevs) : GetOriginalString(ab.abbrevs[j]) = ab.strings[j]
       /\ ab.shifted => Len(ab.abbrevs[ab.k].root) < Len(ab.rootBefore)
       /\ ab.pc = "truncate" => ab.shifts <= Len(ab.strings[ab.k])
       /\ \A j \in 1..Len(ab.abbrevs) :
             j < ab.k => IsFit(ab.fitters[j], GetEllipsesString(ab.abbrevs[j]))
       /\ ab.pc = "done" => ab.k = Len(ab.abbrevs) + 1

\* generateFromStrings has returned; one truncate loop moved characters
\* of the root into the prefix until the ellipsis replaced it and kept part
\* of the root, another one alternated between the two sides.
C18_Witness ==
    /\ ab.pc = "done"
    /\ \E j \in 1..Len(ab.abbrevs) :
          /\ Len(ab.abbrevs[j].prefix) >= ABBREV_CHARS
          /\ ab.abbrevs[j].root # <<>>
          /\ AbbrevStrings(ab.strings)[j].root # ab.abbrevs[j].root
    /\ \E j \in 1..Len(ab.abbrevs) :
          /\ ab.abbrevs[j].prefix # <<>>
          /\ ab.abbrevs[j].suffix # <<>>

\* C17: every drawn edge goes from a node with strictly smaller y to a
\* node with strictly larger y on a different host.
C17_EdgesGoDownToAnotherHost ==
    gb.pc = "draw"
    => \A e \in gb.children : e[1][2] < e[2][2] /\ e[1][1] # e[2][1]

====
